---- MODULE Spec2Model ----
(***************************************************************************)
(* A model of the connection-lifecycle code of websocket_toolkit:          *)
(*   reconnection.rs  ReconnectStrategy::reconnect and the Connectable     *)
(*                    implementations it is driven by,                     *)
(*   controller.rs    WebSocketController::connect, reconnect_if_needed,   *)
(*   connection.rs    WebSocketClient::connect, reconnect.                 *)
(* One caller drives one controller/client/strategy built from the same    *)
(* configuration (retries, base_delay).  Every await of the loops is a     *)
(* step of its own; the transport's answer to a handshake is an input.     *)
(*                                                                         *)
(* A second specification, SpecSched, models the liveness schedulers:      *)
(*   keep_alive.rs    KeepAlive::start on a stream it borrows exclusively, *)
(*   controller.rs    maintain_connection's spawned ticker task, which     *)
(*                    shares an Arc<Mutex<stream>> with the application,   *)
(*   main.rs          run_connection_loop, the application's side of the   *)
(*                    mutex, and WebSocketController::disconnect.          *)
(* The clock counts tick intervals.                                        *)
(*                                                                         *)
(* A third specification, SpecIO, models the calls that move frames:       *)
(*   controller.rs    receive_message, send_message,                       *)
(*                    connect_and_send_message,                            *)
(*   connection.rs    WebSocketClient::send_message.                       *)
(* Frames carry bytes (0..255); a Text frame carries Unicode scalar        *)
(* values, which into_bytes yields as UTF-8.                               *)
(***************************************************************************)
EXTENDS Integers, Sequences, FiniteSets, TLC

\* ---------------------------------------------------------------- bounds
MaxRetries == 3
MaxBaseDelay == 2
MaxPending == 1
MaxHeld == 2
MaxSched == 2
MaxTime == 1
MaxFrames == 2
MaxPayload == 1
MaxText == 2
MaxBytes == 4

\* ------------------------------------------------------------- the state
VARIABLES
  retries,       \* the retry budget given to new() (u32)
  base_delay,    \* ReconnectStrategy.base_delay, in seconds
  connector,     \* which Connectable drives ReconnectStrategy::reconnect
  op,            \* the operation the caller is awaiting, or "idle"
  pc,            \* where that operation stands
  attempt,       \* ReconnectStrategy::reconnect: the for loop's `attempt`
  attempts,      \* reconnect_if_needed: `attempts`
  retries_left,  \* WebSocketClient::reconnect: `retries_left`
  result,        \* what the operation returned
  calls,         \* what each connect call of this operation returned to it
  wire,          \* outcome of each transport handshake since the operation began
  sleeps,        \* the delays (seconds) this operation has slept, in order
  pending,       \* connect tasks spawned by Connectable for WebSocketClient, not yet run
  exhausted,     \* reconnect_if_needed has returned "All reconnection attempts failed."
  held,          \* streams the caller was handed and still owns
  lastStream,    \* fate of the stream opened by the latest successful handshake
  shared,        \* the stream was wrapped in Arc<Mutex<_>> (main.rs:53); else it is owned
  ping_interval, \* the probe interval: "None", "Zero" (Some(0)) or "Pos" (Some(n), n > 0)
  link,          \* the stream: "up", "down" (writes fail) or "closed"
  now,           \* the clock, in tick intervals
  mutex,         \* the stream's tokio Mutex: its holder first, then the waiters in order
  tpc,           \* where each scheduler task stands
  tstart,        \* when each task created its interval timer
  ticks,         \* how many ticks each task has taken from its timer
  pingLog,       \* the outcome of every ping write of each task, in order
  pingAt,        \* when each task wrote its latest ping (-1: it has written none)
  failedAt,      \* when a task's ping write failed (-1: it has not)
  kaResult,      \* what KeepAlive::start returned
  mres,          \* what the latest maintain_connection call returned
  apc,           \* where the application stands
  wake,          \* when the application's sleep ends
  session,       \* "active", "disconnected" (disconnect() was called) or "dropped"
  inbound,       \* what the stream will yield to next(): frames and errors, in order
  ioPc,          \* where connect_and_send_message stands, or "idle"
  ioRes,         \* the latest send/receive call: what it saw, wrote and returned
  mpc,           \* main: where the program stands
  backoff,       \* main: `backoff`, in seconds
  mlast,         \* main: how the latest connect attempt ended
  mses,          \* main: what the latest run_connection_loop returned
  msess,         \* main: how many streams it has opened; task t pings stream t
  olink,         \* main: the streams it has let go of, still held by their ping tasks
  cpc,           \* codec: where the caller of MessageHandler stands
  cfmt,          \* codec: the MessageFormat of the call
  cty,           \* codec: the type T of the call
  cval,          \* codec: the value handed to serialize
  cbytes,        \* codec: the bytes serialize returned, or the bytes handed to deserialize
  cres           \* codec: what deserialize returned

connVars == <<retries, base_delay, connector, op, pc, attempt, attempts, retries_left,
              result, calls, wire, sleeps, pending, exhausted, held, lastStream>>

schedVars == <<shared, ping_interval, link, now, mutex, tpc, tstart, ticks, pingLog, pingAt,
               failedAt, kaResult, mres, apc, wake, session>>

ioVars == <<inbound, ioPc, ioRes>>

mainVars == <<mpc, backoff, mlast, mses, msess, olink>>

codecVars == <<cpc, cfmt, cty, cval, cbytes, cres>>

vars == <<connVars, schedVars, ioVars, mainVars, codecVars>>

Tasks == 1..MaxSched

Connectors == {"Mock", "Success", "Scripted", "WebSocketClient"}
Outcomes == {"ok", "err"}

\* ------------------------------------------------------ pure computations

\* A faulty variant of StrategyDelay: the base divided by the attempt.
StrategyDelay_div(base, k) == base \div k

\* reconnection.rs:136  let delay = self.base_delay * attempt;
StrategyDelay(base, k) == base * k

\* A faulty variant of ControllerDelay: a linear law, one second more per attempt.
ControllerDelay_lin(n) == n + 1

\* controller.rs:197  Duration::from_secs(2_u64.pow(attempts))
ControllerDelay(n) == 2 ^ n

\* connection.rs:217  sleep(Duration::from_secs(1))
ClientDelay == 1

\* A faulty variant of StrategyInRange: a range one attempt too long.
StrategyInRange_off(k, n) == k <= n + 1

\* reconnection.rs:125  for attempt in 1..=self.retries
StrategyInRange(k, n) == k <= n

\* A faulty variant of ControllerInBudget: <= for <.
ControllerInBudget_off(n, max) == n <= max

\* controller.rs:192  while attempts < self.retries
ControllerInBudget(n, max) == n < max

\* A faulty variant of ClientInBudget: the loop gives up with one attempt left.
ClientInBudget_early(left) == left > 1

\* A faulty variant of ClientInBudget: >= for >.
ClientInBudget_ge(left) == left >= 0

\* connection.rs:208  while retries_left > 0
ClientInBudget(left) == left > 0

\* The 1-based index of the attempt a loop is making or has last made.
AttemptIndex ==
  CASE op = "Strategy.reconnect" -> attempt
    [] op = "Controller.reconnect_if_needed" -> attempts + 1
    [] op = "Client.reconnect" -> retries - retries_left + 1
    [] OTHER -> 1

\* What Connectable::connect returns to ReconnectStrategy::reconnect.
\*   MockWebSocketClient (reconnection.rs:158, lib.rs:52): always Err
\*   SuccessClient (reconnection.rs:189): always Ok
\*   Scripted: any implementation of the trait, answer chosen per call
\*   WebSocketClient (reconnection.rs:36-47): spawns the handshake, returns Ok(())
ConnectableAnswers(c) ==
  CASE c = "Mock" -> {"err"}
    [] c = "Success" -> {"ok"}
    [] c = "WebSocketClient" -> {"ok"}
    [] OTHER -> Outcomes

\* ------------------------------------------------------------------ Init

\* No scheduler, no application loop: the stream is open and owned.
SchedQuiet ==
  /\ link = "up"
  /\ now = 0
  /\ mutex = <<>>
  /\ tpc = [t \in Tasks |-> "none"]
  /\ tstart = [t \in Tasks |-> 0]
  /\ ticks = [t \in Tasks |-> 0]
  /\ pingLog = [t \in Tasks |-> <<>>]
  /\ pingAt = [t \in Tasks |-> -1]
  /\ failedAt = [t \in Tasks |-> -1]
  /\ kaResult = "pending"
  /\ mres = "none"
  /\ apc = "out"
  /\ wake = 0
  /\ session = "active"

\* main has not started.
MainQuiet ==
  /\ mpc = "idle"
  /\ backoff = 0
  /\ mlast = "none"
  /\ mses = "none"
  /\ msess = 0
  /\ olink = [t \in Tasks |-> "none"]

\* No value handed to serialize, nothing returned by deserialize.
NoValue == [wrap |-> <<"unset">>, str |-> <<>>]

NoResult == [res |-> "none", opt |-> "none", val |-> NoValue]

\* No call of MessageHandler so far.
CodecQuiet ==
  /\ cpc = "idle"
  /\ cfmt = "Json"
  /\ cty = "String"
  /\ cval = NoValue
  /\ cbytes = <<>>
  /\ cres = NoResult

\* The record of a send/receive call, before any was made.
NoFrame == [kind |-> "none", data |-> <<>>]

IoNone ==
  [op |-> "none", frame |-> NoFrame, res |-> "none", err |-> "none", val |-> <<>>,
   conn |-> "none", wrote |-> "none", out |-> <<>>, nin |-> 0]

\* No send or receive call so far, nothing queued on the stream.
IoQuiet ==
  /\ inbound = <<>>
  /\ ioPc = "idle"
  /\ ioRes = IoNone

\* WebSocketController::new / WebSocketClient::new / ReconnectStrategy::new
Init ==
  /\ shared = FALSE
  /\ ping_interval = "Pos"
  /\ SchedQuiet
  /\ IoQuiet
  /\ MainQuiet
  /\ CodecQuiet
  /\ retries \in 0..MaxRetries
  /\ base_delay \in 0..MaxBaseDelay
  /\ connector = "Mock"
  /\ op = "idle"
  /\ pc = "idle"
  /\ attempt = 0
  /\ attempts = 0
  /\ retries_left = 0
  /\ result = "pending"
  /\ calls = <<>>
  /\ wire = <<>>
  /\ sleeps = <<>>
  /\ pending = 0
  /\ exhausted = FALSE
  /\ held = 0
  /\ lastStream = "none"

\* The caller begins operation o: the histories of the previous one are dropped.
Begin(o) ==
  /\ op = "idle"
  /\ op' = o
  /\ result' = "pending"
  /\ calls' = <<>>
  /\ wire' = <<>>
  /\ sleeps' = <<>>

\* ------------------------------------ ReconnectStrategy::reconnect (124-143)

StrategyStart ==
  /\ \E c \in Connectors :
       /\ (c = "WebSocketClient") => pending < MaxPending
       /\ connector' = c
  /\ Begin("Strategy.reconnect")
  /\ attempt' = 1
  /\ pc' = "loop"
  /\ UNCHANGED <<retries, base_delay, attempts, retries_left, pending, exhausted,
                 held, lastStream>>
  /\ UNCHANGED <<schedVars, ioVars, mainVars, codecVars>>

StrategyLoop ==
  /\ op = "Strategy.reconnect" /\ pc = "loop"
  /\ IF StrategyInRange(attempt, retries)
       THEN pc' = "connect" /\ result' = result
       ELSE pc' = "done" /\ result' = "None"
  /\ UNCHANGED <<retries, base_delay, connector, op, attempt, attempts, retries_left,
                 calls, wire, sleeps, pending, exhausted, held, lastStream>>
  /\ UNCHANGED <<schedVars, ioVars, mainVars, codecVars>>

\* A faulty variant of StrategyConnect: the Ok arm without its `return`, so
\* that a successful call falls through to the sleep and the next attempt.
StrategyConnect_noreturn ==
  /\ op = "Strategy.reconnect" /\ pc = "connect"
  /\ \E r \in ConnectableAnswers(connector) :
       /\ calls' = Append(calls, r)
       /\ pc' = "sleep"
       /\ result' = IF r = "ok" THEN "Some" ELSE result
  /\ pending' = IF connector = "WebSocketClient" THEN pending + 1 ELSE pending
  /\ UNCHANGED <<retries, base_delay, connector, op, attempt, attempts, retries_left,
                 wire, sleeps, exhausted, held, lastStream>>
  /\ UNCHANGED <<schedVars, ioVars, mainVars, codecVars>>

\* match client.connect().await: Ok(()) => return Some(()), Err(e) => logged and
\* on to the sleep.  With the WebSocketClient connector the call spawns the
\* handshake as a detached task and answers Ok(()).
StrategyConnect ==
  /\ op = "Strategy.reconnect" /\ pc = "connect"
  /\ \E r \in ConnectableAnswers(connector) :
       /\ calls' = Append(calls, r)
       /\ IF r = "ok"
            THEN pc' = "done" /\ result' = "Some"
            ELSE pc' = "sleep" /\ result' = result
  /\ pending' = IF connector = "WebSocketClient" THEN pending + 1 ELSE pending
  /\ UNCHANGED <<retries, base_delay, connector, op, attempt, attempts, retries_left,
                 wire, sleeps, exhausted, held, lastStream>>
  /\ UNCHANGED <<schedVars, ioVars, mainVars, codecVars>>

StrategySleep ==
  /\ op = "Strategy.reconnect" /\ pc = "sleep"
  /\ sleeps' = Append(sleeps, StrategyDelay(base_delay, attempt))
  /\ attempt' = attempt + 1
  /\ pc' = "loop"
  /\ UNCHANGED <<retries, base_delay, connector, op, attempts, retries_left, result,
                 calls, wire, pending, exhausted, held, lastStream>>
  /\ UNCHANGED <<schedVars, ioVars, mainVars, codecVars>>

\* The task spawned by Connectable for WebSocketClient (reconnection.rs:39-44):
\* it runs WebSocketClient::connect, logs the outcome and drops the stream.
SpawnedConnect ==
  /\ pending > 0
  /\ pending' = pending - 1
  /\ \E r \in Outcomes :
       /\ wire' = Append(wire, r)
       /\ lastStream' = IF r = "ok" THEN "dropped" ELSE lastStream
  /\ UNCHANGED <<retries, base_delay, connector, op, pc, attempt, attempts,
                 retries_left, result, calls, sleeps, exhausted, held>>
  /\ UNCHANGED <<schedVars, ioVars, mainVars, codecVars>>

\* ------------------------------- WebSocketController::connect (70-77), which
\* awaits WebSocketClient::connect (connection.rs:118-124): one handshake; the
\* stream, if any, is handed to the caller.

ConnectStart ==
  /\ held < MaxHeld
  /\ Begin("Controller.connect")
  /\ pc' = "connect"
  /\ UNCHANGED <<retries, base_delay, connector, attempt, attempts, retries_left,
                 pending, exhausted, held, lastStream>>
  /\ UNCHANGED <<schedVars, ioVars, mainVars, codecVars>>

ConnectCall ==
  /\ op = "Controller.connect" /\ pc = "connect"
  /\ \E r \in Outcomes :
       /\ calls' = Append(calls, r)
       /\ wire' = Append(wire, r)
       /\ result' = IF r = "ok" THEN "Ok" ELSE "Err"
       /\ held' = IF r = "ok" THEN held + 1 ELSE held
       /\ lastStream' = IF r = "ok" THEN "returned" ELSE lastStream
  /\ pc' = "done"
  /\ UNCHANGED <<retries, base_delay, connector, op, attempt, attempts, retries_left,
                 sleeps, pending, exhausted>>
  /\ UNCHANGED <<schedVars, ioVars, mainVars, codecVars>>

\* ----------------------- WebSocketController::reconnect_if_needed (190-203)

ReconnectIfNeededStart ==
  /\ Begin("Controller.reconnect_if_needed")
  /\ attempts' = 0
  /\ pc' = "loop"
  /\ UNCHANGED <<retries, base_delay, connector, attempt, retries_left, pending,
                 exhausted, held, lastStream>>
  /\ UNCHANGED <<schedVars, ioVars, mainVars, codecVars>>

ReconnectIfNeededLoop ==
  /\ op = "Controller.reconnect_if_needed" /\ pc = "loop"
  /\ IF ControllerInBudget(attempts, retries)
       THEN pc' = "connect" /\ result' = result /\ exhausted' = exhausted
       ELSE pc' = "done" /\ result' = "Err" /\ exhausted' = TRUE
  /\ UNCHANGED <<retries, base_delay, connector, op, attempt, attempts, retries_left,
                 calls, wire, sleeps, pending, held, lastStream>>
  /\ UNCHANGED <<schedVars, ioVars, mainVars, codecVars>>

\* Ok(_) => return Ok(()): the stream bound to `_` is dropped on the spot.
ReconnectIfNeededConnect ==
  /\ op = "Controller.reconnect_if_needed" /\ pc = "connect"
  /\ \E r \in Outcomes :
       /\ calls' = Append(calls, r)
       /\ wire' = Append(wire, r)
       /\ IF r = "ok"
            THEN pc' = "done" /\ result' = "Ok" /\ lastStream' = "dropped"
            ELSE pc' = "sleep" /\ result' = result /\ lastStream' = lastStream
  /\ UNCHANGED <<retries, base_delay, connector, op, attempt, attempts, retries_left,
                 sleeps, pending, exhausted, held>>
  /\ UNCHANGED <<schedVars, ioVars, mainVars, codecVars>>

ReconnectIfNeededSleep ==
  /\ op = "Controller.reconnect_if_needed" /\ pc = "sleep"
  /\ sleeps' = Append(sleeps, ControllerDelay(attempts))
  /\ attempts' = attempts + 1
  /\ pc' = "loop"
  /\ UNCHANGED <<retries, base_delay, connector, op, attempt, retries_left, result,
                 calls, wire, pending, exhausted, held, lastStream>>
  /\ UNCHANGED <<schedVars, ioVars, mainVars, codecVars>>

\* ---------------------------------- WebSocketClient::reconnect (206-222)

ClientReconnectStart ==
  /\ held < MaxHeld
  /\ Begin("Client.reconnect")
  /\ retries_left' = retries
  /\ pc' = "loop"
  /\ UNCHANGED <<retries, base_delay, connector, attempt, attempts, pending,
                 exhausted, held, lastStream>>
  /\ UNCHANGED <<schedVars, ioVars, mainVars, codecVars>>

ClientReconnectLoop ==
  /\ op = "Client.reconnect" /\ pc = "loop"
  /\ IF ClientInBudget(retries_left)
       THEN pc' = "connect" /\ result' = result
       ELSE pc' = "done" /\ result' = "Err"
  /\ UNCHANGED <<retries, base_delay, connector, op, attempt, attempts, retries_left,
                 calls, wire, sleeps, pending, exhausted, held, lastStream>>
  /\ UNCHANGED <<schedVars, ioVars, mainVars, codecVars>>

ClientReconnectConnect ==
  /\ op = "Client.reconnect" /\ pc = "connect"
  /\ \E r \in Outcomes :
       /\ calls' = Append(calls, r)
       /\ wire' = Append(wire, r)
       /\ IF r = "ok"
            THEN /\ pc' = "done" /\ result' = "Ok"
                 /\ held' = held + 1 /\ lastStream' = "returned"
                 /\ retries_left' = retries_left
            ELSE /\ pc' = "sleep" /\ result' = result
                 /\ held' = held /\ lastStream' = lastStream
                 /\ retries_left' = retries_left - 1
  /\ UNCHANGED <<retries, base_delay, connector, op, attempt, attempts, sleeps,
                 pending, exhausted>>
  /\ UNCHANGED <<schedVars, ioVars, mainVars, codecVars>>

ClientReconnectSleep ==
  /\ op = "Client.reconnect" /\ pc = "sleep"
  /\ sleeps' = Append(sleeps, ClientDelay)
  /\ pc' = "loop"
  /\ UNCHANGED <<retries, base_delay, connector, op, attempt, attempts, retries_left,
                 result, calls, wire, pending, exhausted, held, lastStream>>
  /\ UNCHANGED <<schedVars, ioVars, mainVars, codecVars>>

\* ------------------------------------------------------------ the caller

\* The awaited operation has returned; the caller goes on.  The operation's
\* locals go out of scope and its histories are dropped with it.
Return ==
  /\ pc = "done"
  /\ op' = "idle"
  /\ pc' = "idle"
  /\ connector' = "Mock"
  /\ attempt' = 0 /\ attempts' = 0 /\ retries_left' = 0
  /\ result' = "pending"
  /\ calls' = <<>> /\ wire' = <<>> /\ sleeps' = <<>>
  /\ UNCHANGED <<retries, base_delay, pending, exhausted, held, lastStream>>
  /\ UNCHANGED <<schedVars, ioVars, mainVars, codecVars>>

\* The caller drops a stream it owns.
DropStream ==
  /\ held > 0
  /\ held' = held - 1
  /\ UNCHANGED <<retries, base_delay, connector, op, pc, attempt, attempts,
                 retries_left, result, calls, wire, sleeps, pending, exhausted,
                 lastStream>>
  /\ UNCHANGED <<schedVars, ioVars, mainVars, codecVars>>

\* The caller builds a new controller (WebSocketController::new, 55-62) with a
\* new configuration; nothing of the old one is carried over.
Reconstruct ==
  /\ op = "idle"
  /\ retries' \in 0..MaxRetries
  /\ base_delay' \in 0..MaxBaseDelay
  /\ exhausted' = FALSE
  /\ wire' = <<>>
  /\ session' = "active"
  /\ UNCHANGED <<connector, op, pc, attempt, attempts, retries_left, result, calls,
                 sleeps, pending, held, lastStream>>
  /\ UNCHANGED <<shared, ping_interval, link, now, mutex, tpc, tstart, ticks, pingLog, pingAt,
                 failedAt, kaResult, mres, apc, wake>>
  /\ UNCHANGED <<ioVars, mainVars, codecVars>>

\* ---------------------------- WebSocketController::disconnect (102-105)

\* Takes &self, as connect and reconnect_if_needed do, so it can be called
\* while one of them is in flight; self.client.disconnect() logs "Disconnected from ..." (connection.rs:157-185)
\* and Ok(()) is returned.
Disconnect ==
  /\ apc \in {"out", "ended"}
  /\ session = "active"
  /\ session' = "disconnected"
  /\ UNCHANGED <<shared, ping_interval, link, now, mutex, tpc, tstart, ticks, pingLog, pingAt,
                 failedAt, kaResult, mres, apc, wake>>
  /\ UNCHANGED <<connVars, ioVars, mainVars, codecVars>>

Next ==
  \/ StrategyStart
  \/ StrategyLoop
  \/ StrategyConnect
  \/ StrategySleep
  \/ SpawnedConnect
  \/ ConnectStart
  \/ ConnectCall
  \/ ReconnectIfNeededStart
  \/ ReconnectIfNeededLoop
  \/ ReconnectIfNeededConnect
  \/ ReconnectIfNeededSleep
  \/ ClientReconnectStart
  \/ ClientReconnectLoop
  \/ ClientReconnectConnect
  \/ ClientReconnectSleep
  \/ Return
  \/ DropStream
  \/ Reconstruct
  \/ Disconnect

Spec == Init /\ [][Next]_vars

\* ============================================= the liveness schedulers

\* The application task, as a party to the mutex (scheduler tasks are 1..MaxSched).
App == 0

\* The tick period in clock units: Duration::from_secs(ping_interval.unwrap_or(5))
\* (controller.rs:59) is positive unless the caller gave Some(0).
Period == IF ping_interval = "Zero" THEN 0 ELSE 1

\* The kind of scheduler: maintain_connection's task on a shared stream, or
\* KeepAlive::start on a stream it holds by `&mut` for its whole run.
Kind == IF shared THEN "maintain" ELSE "KeepAlive"

\* ws_stream.send(..).await on the stream as it is now.
WriteOutcome == IF link = "up" THEN "ok" ELSE "err"

\* tokio::sync::Mutex is fair: lock() joins the queue, the head holds the lock.
Holds(p) == mutex # <<>> /\ Head(mutex) = p

\* The guard of p is dropped.
Release(p) == IF Holds(p) THEN Tail(mutex) ELSE mutex

\* The task spawned by maintain_connection has run to its end or was cancelled.
Over(t) == tpc[t] \in {"none", "stopped", "panicked", "cancelled"}

\* tokio::time::interval (controller.rs:172, keep_alive.rs:27): the first
\* tick completes at once, the k-th one k-1 periods after the timer was made;
\* a tick that was missed is due as soon as it is asked for.
TickDue(t) == tstart[t] + ticks[t] * Period <= now

\* A faulty variant of AfterTick: the ping is sent without waiting for the lock.
AfterTick_nolock == "send"

\* After ticker.tick(): controller.rs:175 awaits ws_stream.lock(); keep_alive.rs:32
\* writes at once to the stream it borrows.
AfterTick == IF shared THEN "lock" ELSE "send"

\* A faulty variant of PingFrames: two pings for one tick.
PingFrames_twice(r) == <<r, r>>

\* The frames one loop iteration writes: send(Message::Ping(vec![])), once
\* (controller.rs:176, keep_alive.rs:32).
PingFrames(r) == <<r>>

\* A faulty variant of AfterPing: a failed ping is retried at the next tick.
AfterPing_retry(r) == "tick"

\* Where the loop goes after the write: on around the loop, or out of it
\* (controller.rs:176-179 break; keep_alive.rs:34-37 return Err).
AfterPing(r) == IF r = "ok" THEN "tick" ELSE "stopped"

\* A faulty variant of LinkAfterPing: the task closes the stream after a ping.
LinkAfterPing_close(r) == "closed"

\* The stream after a ping write of a scheduler: the loop body has no close()
\* and no reconnect, whatever the write returned (controller.rs:176-179,
\* keep_alive.rs:32-38).
LinkAfterPing(r) == link

\* A faulty variant of MutexAfterPing: the guard outlives the iteration.
MutexAfterPing_keep(t) == mutex

\* `stream`, the guard, is a local of the loop body (controller.rs:175): it is
\* dropped at the end of the iteration and on break.
MutexAfterPing(t) == Release(t)

\* Scheduler t has the stream to itself: the task of maintain_connection while
\* it holds the guard; KeepAlive::start for its whole run, ticks included,
\* since it takes the stream by `&mut` (keep_alive.rs:26).
Exclusive(t) ==
  IF shared THEN Holds(t) ELSE tpc[t] \in {"tick", "send"}

\* The state after the connection is up: main.rs:50-53 (shared) or a caller
\* that owns the stream and a KeepAlive (keep_alive.rs:13).
SchedInit ==
  /\ shared \in BOOLEAN
  /\ ping_interval \in (IF shared THEN {"None", "Zero", "Pos"} ELSE {"Zero", "Pos"})
  /\ SchedQuiet
  /\ IoQuiet
  /\ MainQuiet
  /\ CodecQuiet
  /\ retries = 0 /\ base_delay = 0 /\ connector = "Mock"
  /\ op = "idle" /\ pc = "idle"
  /\ attempt = 0 /\ attempts = 0 /\ retries_left = 0
  /\ result = "pending"
  /\ calls = <<>> /\ wire = <<>> /\ sleeps = <<>>
  /\ pending = 0 /\ exhausted = FALSE /\ held = 1 /\ lastStream = "returned"

\* ------------------- WebSocketController::maintain_connection (166-183)

\* The call: the ticker task is spawned, its JoinHandle dropped, Ok(()) returned.
MaintainConnection ==
  /\ shared
  /\ apc \in {"out", "ended"}
  /\ \E t \in Tasks :
       /\ tpc[t] = "none"
       /\ \A u \in Tasks : u < t => tpc[u] # "none"
       /\ tpc' = [tpc EXCEPT ![t] = "spawned"]
  /\ mres' = "Ok"
  /\ UNCHANGED <<shared, ping_interval, link, now, mutex, tstart, ticks, pingLog, pingAt,
                 failedAt, kaResult, apc, wake, session>>
  /\ UNCHANGED <<connVars, ioVars, mainVars, codecVars>>

\* The task's first step: tokio::time::interval(interval), which panics on a
\* zero period.
TaskBegin(t) ==
  /\ tpc[t] = "spawned"
  /\ IF Period = 0
       THEN tpc' = [tpc EXCEPT ![t] = "panicked"] /\ tstart' = tstart
       ELSE tpc' = [tpc EXCEPT ![t] = "tick"] /\ tstart' = [tstart EXCEPT ![t] = now]
  /\ UNCHANGED <<shared, ping_interval, link, now, mutex, ticks, pingLog, pingAt, failedAt,
                 kaResult, mres, apc, wake, session>>
  /\ UNCHANGED <<connVars, ioVars, mainVars, codecVars>>

\* -------------------------------------------- KeepAlive::start (26-40)

\* The caller awaits (or spawns) start(&mut ws_stream) on the stream it owns.
KeepAliveStart ==
  /\ ~shared
  /\ tpc[1] = "none"
  /\ IF Period = 0
       THEN tpc' = [tpc EXCEPT ![1] = "panicked"] /\ tstart' = tstart
       ELSE tpc' = [tpc EXCEPT ![1] = "tick"] /\ tstart' = [tstart EXCEPT ![1] = now]
  /\ UNCHANGED <<shared, ping_interval, link, now, mutex, ticks, pingLog, pingAt, failedAt,
                 kaResult, mres, apc, wake, session>>
  /\ UNCHANGED <<connVars, ioVars, mainVars, codecVars>>

\* ------------------------------------ the loop body of either scheduler

\* ticker.tick().await completes: the first tick at once, the k-th one k-1
\* periods after the timer was made (missed ticks are caught up).
TaskTick(t) ==
  /\ tpc[t] = "tick"
  /\ TickDue(t)
  /\ ticks' = [ticks EXCEPT ![t] = @ + 1]
  /\ tpc' = [tpc EXCEPT ![t] = AfterTick]
  /\ mutex' = IF shared THEN Append(mutex, t) ELSE mutex
  /\ UNCHANGED <<shared, ping_interval, link, now, tstart, pingLog, pingAt, failedAt,
                 kaResult, mres, apc, wake, session>>
  /\ UNCHANGED <<connVars, ioVars, mainVars, codecVars>>

\* ws_stream.lock().await completes: the task is at the head of the queue.
TaskAcquire(t) ==
  /\ tpc[t] = "lock"
  /\ Holds(t)
  /\ tpc' = [tpc EXCEPT ![t] = "send"]
  /\ UNCHANGED <<shared, ping_interval, link, now, mutex, tstart, ticks, pingLog, pingAt,
                 failedAt, kaResult, mres, apc, wake, session>>
  /\ UNCHANGED <<connVars, ioVars, mainVars, codecVars>>

\* stream.send(Message::Ping(vec![])).await completes; the iteration ends.
TaskPing(t) ==
  /\ tpc[t] = "send"
  /\ LET r == WriteOutcome IN
       /\ pingLog' = [pingLog EXCEPT ![t] = @ \o PingFrames(r)]
       /\ pingAt' = [pingAt EXCEPT ![t] = now]
       /\ tpc' = [tpc EXCEPT ![t] = AfterPing(r)]
       /\ failedAt' = IF r = "err" THEN [failedAt EXCEPT ![t] = now] ELSE failedAt
       /\ kaResult' = IF r = "err" /\ ~shared /\ AfterPing(r) = "stopped"
                        THEN "Err" ELSE kaResult
       /\ link' = LinkAfterPing(r)
  /\ mutex' = IF shared THEN MutexAfterPing(t) ELSE mutex
  /\ UNCHANGED <<shared, ping_interval, now, tstart, ticks, mres, apc, wake,
                 session>>
  /\ UNCHANGED <<connVars, ioVars, mainVars, codecVars>>

\* -------------------------------- run_connection_loop (main.rs:96-147)

\* run_connection_loop is entered: its first statement is
\* controller.maintain_connection(ws_stream.clone()).await? (main.rs:102),
\* which spawns the ticker task and returns Ok(()); the application is then
\* at the top of its loop.
AppEnter ==
  /\ shared /\ apc = "out"
  /\ \E t \in Tasks :
       /\ tpc[t] = "none"
       /\ \A u \in Tasks : u < t => tpc[u] # "none"
       /\ tpc' = [tpc EXCEPT ![t] = "spawned"]
  /\ mres' = "Ok"
  /\ apc' = "top"
  /\ UNCHANGED <<shared, ping_interval, link, now, mutex, tstart, ticks, pingLog, pingAt,
                 failedAt, kaResult, wake, session>>
  /\ UNCHANGED <<connVars, ioVars, mainVars, codecVars>>

\* let mut stream = ws_stream.lock().await; (main.rs:105), at the top of
\* every iteration: the application joins the queue.
AppLock ==
  /\ shared /\ apc = "top"
  /\ mutex' = Append(mutex, App)
  /\ apc' = "lockwait"
  /\ UNCHANGED <<shared, ping_interval, link, now, tpc, tstart, ticks, pingLog, pingAt,
                 failedAt, kaResult, mres, wake, session>>
  /\ UNCHANGED <<connVars, ioVars, mainVars, codecVars>>

AppAcquire ==
  /\ apc = "lockwait" /\ Holds(App)
  /\ apc' = "receive"
  /\ UNCHANGED <<shared, ping_interval, link, now, mutex, tpc, tstart, ticks, pingLog, pingAt,
                 failedAt, kaResult, mres, wake, session>>
  /\ UNCHANGED <<connVars, ioVars, mainVars, codecVars>>

\* controller.receive_message(&mut *stream).await completes, guard in hand:
\* a data frame is answered, a control frame ignored, an error breaks the loop.
AppReceive ==
  /\ apc = "receive"
  /\ \E f \in (IF link = "up" THEN {"data", "control", "error"} ELSE {"error"}) :
       CASE f = "data" -> apc' = "reply" /\ mutex' = mutex
         [] f = "control" /\ ping_interval # "None" -> apc' = "ping" /\ mutex' = mutex
         [] f = "control" /\ ping_interval = "None" ->
              apc' = "top" /\ mutex' = Release(App)
         [] OTHER -> apc' = "ended" /\ mutex' = Release(App)
  /\ UNCHANGED <<shared, ping_interval, link, now, tpc, tstart, ticks, pingLog, pingAt,
                 failedAt, kaResult, mres, wake, session>>
  /\ UNCHANGED <<connVars, ioVars, mainVars, codecVars>>

\* controller.send_message(&mut *stream, &cbor_response).await?
AppReply ==
  /\ apc = "reply"
  /\ IF WriteOutcome = "ok"
       THEN IF ping_interval # "None"
              THEN apc' = "ping" /\ mutex' = mutex
              ELSE apc' = "top" /\ mutex' = Release(App)
       ELSE apc' = "ended" /\ mutex' = Release(App)
  /\ UNCHANGED <<shared, ping_interval, link, now, tpc, tstart, ticks, pingLog, pingAt,
                 failedAt, kaResult, mres, wake, session>>
  /\ UNCHANGED <<connVars, ioVars, mainVars, codecVars>>

\* controller.send_ping(&mut *stream).await, then sleep(interval) begins.
AppPing ==
  /\ apc = "ping"
  /\ IF WriteOutcome = "ok"
       THEN apc' = "sleep" /\ wake' = now + Period /\ mutex' = mutex
       ELSE apc' = "ended" /\ wake' = wake /\ mutex' = Release(App)
  /\ UNCHANGED <<shared, ping_interval, link, now, tpc, tstart, ticks, pingLog, pingAt,
                 failedAt, kaResult, mres, session>>
  /\ UNCHANGED <<connVars, ioVars, mainVars, codecVars>>

\* The sleep ends; so does the iteration: the guard is dropped and the
\* application is at the top of the loop, not yet asking for the lock.
AppWake ==
  /\ apc = "sleep" /\ wake <= now
  /\ apc' = "top"
  /\ wake' = 0
  /\ mutex' = Release(App)
  /\ UNCHANGED <<shared, ping_interval, link, now, tpc, tstart, ticks, pingLog, pingAt,
                 failedAt, kaResult, mres, session>>
  /\ UNCHANGED <<connVars, ioVars, mainVars, codecVars>>

\* ws_stream.lock().await, then close(None) (controller.rs:273-276).
AppCloseLock ==
  /\ shared /\ apc \in {"out", "ended"} /\ link # "closed"
  /\ mutex' = Append(mutex, App)
  /\ apc' = "closewait"
  /\ UNCHANGED <<shared, ping_interval, link, now, tpc, tstart, ticks, pingLog, pingAt,
                 failedAt, kaResult, mres, wake, session>>
  /\ UNCHANGED <<connVars, ioVars, mainVars, codecVars>>

AppClose ==
  /\ apc = "closewait" /\ Holds(App)
  /\ link' = "closed"
  /\ mutex' = Release(App)
  /\ apc' = "ended"
  /\ UNCHANGED <<shared, ping_interval, now, tpc, tstart, ticks, pingLog, pingAt, failedAt,
                 kaResult, mres, wake, session>>
  /\ UNCHANGED <<connVars, ioVars, mainVars, codecVars>>

\* The controller goes out of scope; it has no Drop implementation.
DropController ==
  /\ apc \in {"out", "ended"}
  /\ session # "dropped"
  /\ session' = "dropped"
  /\ UNCHANGED <<shared, ping_interval, link, now, mutex, tpc, tstart, ticks, pingLog, pingAt,
                 failedAt, kaResult, mres, apc, wake>>
  /\ UNCHANGED <<connVars, ioVars, mainVars, codecVars>>

\* --------------------------------------------------- the environment

\* The peer or the network goes away: writes fail from now on.
LinkDown ==
  /\ apc # "exited"
  /\ link = "up"
  /\ link' = "down"
  /\ UNCHANGED <<shared, ping_interval, now, mutex, tpc, tstart, ticks, pingLog, pingAt,
                 failedAt, kaResult, mres, apc, wake, session>>
  /\ UNCHANGED <<connVars, ioVars, mainVars, codecVars>>

\* One tick interval passes.
Advance ==
  /\ apc # "exited"
  /\ now < MaxTime
  /\ now' = now + 1
  /\ UNCHANGED <<shared, ping_interval, link, mutex, tpc, tstart, ticks, pingLog, pingAt,
                 failedAt, kaResult, mres, apc, wake, session>>
  /\ UNCHANGED <<connVars, ioVars, mainVars, codecVars>>

\* The runtime is shut down (main returns, shared) or the future of
\* KeepAlive::start is dropped by its caller: every scheduler still running is
\* cancelled at its await, and a guard it held is dropped with it.
Cancel ==
  /\ \E t \in Tasks : ~Over(t)
  /\ shared => apc \in {"out", "ended"}
  /\ tpc' = [t \in Tasks |-> IF Over(t) THEN tpc[t] ELSE "cancelled"]
  /\ mutex' = <<>>
  /\ apc' = IF shared THEN "exited" ELSE apc
  /\ UNCHANGED <<shared, ping_interval, link, now, tstart, ticks, pingLog, pingAt, failedAt,
                 kaResult, mres, wake, session>>
  /\ UNCHANGED <<connVars, ioVars, mainVars, codecVars>>

SchedNext ==
  \/ MaintainConnection
  \/ KeepAliveStart
  \/ \E t \in Tasks : TaskBegin(t)
  \/ \E t \in Tasks : TaskTick(t)
  \/ \E t \in Tasks : TaskAcquire(t)
  \/ \E t \in Tasks : TaskPing(t)
  \/ AppEnter
  \/ AppLock
  \/ AppAcquire
  \/ AppReceive
  \/ AppReply
  \/ AppPing
  \/ AppWake
  \/ AppCloseLock
  \/ AppClose
  \/ Disconnect
  \/ DropController
  \/ LinkDown
  \/ Advance
  \/ Cancel

SpecSched == SchedInit /\ [][SchedNext]_vars

\* ======================================================= moving frames

\* Sequences over S of length at most n.
SeqsUpTo(S, n) == UNION {[1..k -> S] : k \in 0..n}

\* The bytes a Binary frame may carry, and the Unicode scalar values of a text:
\* 200 alone is no valid UTF-8; 'A' takes one byte of UTF-8, e-acute two.
Bytes == {200}
Chars == {65, 233}

BinPayloads == SeqsUpTo(Bytes, MaxPayload)
TextPayloads == SeqsUpTo(Chars, MaxPayload)

\* What ws_stream.next().await can yield: Some(Ok(Message::..)) for the five
\* variants matched at controller.rs:122-131, Some(Err(_)) for a transport
\* error; None, the end of the stream, is what follows the last of them.
Items ==
  {[kind |-> "Binary", data |-> d] : d \in BinPayloads}
    \cup {[kind |-> "Text", data |-> d] : d \in TextPayloads}
    \cup {[kind |-> k, data |-> <<>>] : k \in {"Ping", "Pong", "Close", "Error"}}

EndOfStream == [kind |-> "End", data |-> <<>>]

\* String::into_bytes: the UTF-8 encoding of one scalar value, then of a text.
Utf8Char(c) ==
  IF c < 128 THEN <<c>>
  ELSE IF c < 2048 THEN <<192 + (c \div 64), 128 + (c % 64)>>
  ELSE <<224 + (c \div 4096), 128 + ((c \div 64) % 64), 128 + (c % 64)>>

RECURSIVE Utf8(_)
Utf8(t) == IF t = <<>> THEN <<>> ELSE Utf8Char(Head(t)) \o Utf8(Tail(t))

\* serde_json::to_vec(&str) (messages.rs:115, called at connection.rs:134): the
\* text between double quotes, '"' and '\\' escaped with a backslash, in UTF-8.
RECURSIVE JsonEscape(_)
JsonEscape(t) ==
  IF t = <<>> THEN <<>>
  ELSE (IF Head(t) \in {34, 92} THEN <<92, Head(t)>> ELSE Utf8Char(Head(t)))
         \o JsonEscape(Tail(t))

SerializeJson(t) == <<34>> \o JsonEscape(t) \o <<34>>

\* A faulty variant of ControllerReceive: a control frame is surfaced as data.
ControllerReceive_surface(item) ==
  IF item.kind \in {"Close", "Error", "End"}
    THEN [res |-> "Err", err |-> "failed", val |-> <<>>]
    ELSE [res |-> "OkSome", val |-> item.data, err |-> "none"]

\* A faulty variant of ControllerReceive: whatever is no data yields no
\* message, as in WebSocketClient::receive_message (connection.rs:88-96).
ControllerReceive_lenient(item) ==
  IF item.kind \in {"Binary", "Text"}
    THEN [res |-> "OkSome", val |-> Utf8(item.data), err |-> "none"]
    ELSE [res |-> "OkNone", val |-> <<>>, err |-> "none"]

\* A faulty variant of ControllerReceive: a text is handed on as its scalar
\* values, not as its UTF-8 bytes.
ControllerReceive_raw(item) ==
  IF item.kind \in {"Binary", "Text"}
    THEN [res |-> "OkSome", val |-> item.data, err |-> "none"]
    ELSE IF item.kind \in {"Ping", "Pong"}
      THEN [res |-> "OkNone", val |-> <<>>, err |-> "none"]
      ELSE [res |-> "Err", err |-> "failed", val |-> <<>>]

\* WebSocketController::receive_message (controller.rs:120-135) on what
\* next() yielded.
ControllerReceive(item) ==
  CASE item.kind = "Binary" -> [res |-> "OkSome", val |-> item.data, err |-> "none"]
    [] item.kind = "Text" -> [res |-> "OkSome", val |-> Utf8(item.data), err |-> "none"]
    [] item.kind \in {"Ping", "Pong"} -> [res |-> "OkNone", val |-> <<>>, err |-> "none"]
    [] item.kind = "Close" ->
         [res |-> "Err", err |-> "Connection closed by server", val |-> <<>>]
    [] item.kind = "Error" -> [res |-> "Err", err |-> "transport", val |-> <<>>]
    [] OTHER -> [res |-> "Err", err |-> "No message received", val |-> <<>>]

\* WebSocketClient::receive_message (connection.rs:88-96) on what next()
\* yielded on the stream it opened: the bytes of a Text or Binary frame, None
\* for every other frame, for an error and for the end of the stream.
ClientReceive(item) ==
  CASE item.kind = "Binary" -> [res |-> "Some", val |-> item.data]
    [] item.kind = "Text" -> [res |-> "Some", val |-> Utf8(item.data)]
    [] OTHER -> [res |-> "None", val |-> <<>>]

\* A faulty variant of CasAfterConnect: the send goes ahead without a stream.
CasAfterConnect_always(r) == "send"

\* connect_and_send_message: `self.connect().await?` (controller.rs:92).
CasAfterConnect(r) == IF r = "ok" THEN "send" ELSE "idle"

\* The state when a stream is open and the caller is about to use it.
IoInit ==
  /\ shared = FALSE
  /\ ping_interval = "Pos"
  /\ SchedQuiet
  /\ inbound \in SeqsUpTo(Items, MaxFrames)
  /\ ioPc = "idle"
  /\ ioRes = IoNone
  /\ MainQuiet
  /\ CodecQuiet
  /\ retries = 0 /\ base_delay = 0 /\ connector = "Mock"
  /\ op = "idle" /\ pc = "idle"
  /\ attempt = 0 /\ attempts = 0 /\ retries_left = 0
  /\ result = "pending"
  /\ calls = <<>> /\ wire = <<>> /\ sleeps = <<>>
  /\ pending = 0 /\ exhausted = FALSE /\ held = 1 /\ lastStream = "returned"

\* WebSocketController::receive_message (116-136): one next().await, whose
\* item is taken off the stream, and the match on it.
ControllerReceiveMessage ==
  /\ ioPc = "idle"
  /\ LET item == IF inbound = <<>> THEN EndOfStream ELSE Head(inbound)
         r == ControllerReceive(item)
     IN ioRes' = [IoNone EXCEPT !.op = "Controller.receive_message",
                               !.frame = item, !.res = r.res, !.err = r.err,
                               !.val = r.val, !.nin = Len(inbound)]
  /\ inbound' = IF inbound = <<>> THEN inbound ELSE Tail(inbound)
  /\ UNCHANGED ioPc
  /\ UNCHANGED <<connVars, schedVars, mainVars, codecVars>>

\* WebSocketController::send_message (148-155): one Binary frame, `?` on the write.
ControllerSendMessage ==
  /\ ioPc = "idle"
  /\ \E msg \in BinPayloads :
       LET r == WriteOutcome IN
         ioRes' = [IoNone EXCEPT !.op = "Controller.send_message", !.val = msg,
                                 !.wrote = r,
                                 !.out = IF r = "ok"
                                           THEN <<[kind |-> "Binary", data |-> msg]>>
                                           ELSE <<>>,
                                 !.res = IF r = "ok" THEN "Ok" ELSE "Err",
                                 !.nin = Len(inbound)]
  /\ UNCHANGED <<inbound, ioPc>>
  /\ UNCHANGED <<connVars, schedVars, mainVars, codecVars>>

\* WebSocketClient::send_message (connection.rs:133-145): the text as JSON in a
\* Binary frame; both arms of the write only log, and the function returns ().
ClientSendMessage ==
  /\ ioPc = "idle"
  /\ \E msg \in TextPayloads :
       LET r == WriteOutcome IN
         ioRes' = [IoNone EXCEPT !.op = "Client.send_message", !.val = msg,
                                 !.wrote = r,
                                 !.out = IF r = "ok"
                                           THEN <<[kind |-> "Binary",
                                                   data |-> SerializeJson(msg)]>>
                                           ELSE <<>>,
                                 !.res = "unit",
                                 !.nin = Len(inbound)]
  /\ UNCHANGED <<inbound, ioPc>>
  /\ UNCHANGED <<connVars, schedVars, mainVars, codecVars>>

\* connect_and_send_message (88-95), first await: a connection of its own.
CasConnect ==
  /\ ioPc = "idle"
  /\ \E msg \in BinPayloads : \E r \in Outcomes :
       /\ ioRes' = [IoNone EXCEPT !.op = "Controller.connect_and_send_message",
                                  !.val = msg, !.conn = r,
                                  !.res = IF CasAfterConnect(r) = "idle"
                                            THEN "Err" ELSE "pending",
                                  !.nin = Len(inbound)]
       /\ ioPc' = CasAfterConnect(r)
       /\ wire' = <<r>>
       /\ lastStream' = IF r = "ok" THEN "local" ELSE lastStream
  /\ UNCHANGED inbound
  /\ UNCHANGED <<retries, base_delay, connector, op, pc, attempt, attempts,
                 retries_left, result, calls, sleeps, pending, exhausted, held>>
  /\ UNCHANGED <<schedVars, mainVars, codecVars>>

\* connect_and_send_message, second await: send_message on the new stream,
\* which is dropped when the function returns.
CasSend ==
  /\ ioPc = "send"
  /\ \E r \in Outcomes :
       ioRes' = [ioRes EXCEPT !.wrote = r,
                              !.out = IF r = "ok"
                                        THEN <<[kind |-> "Binary", data |-> ioRes.val]>>
                                        ELSE <<>>,
                              !.res = IF r = "ok" THEN "Ok" ELSE "Err"]
  /\ ioPc' = "idle"
  /\ lastStream' = "dropped"
  /\ UNCHANGED inbound
  /\ UNCHANGED <<retries, base_delay, connector, op, pc, attempt, attempts,
                 retries_left, result, calls, wire, sleeps, pending, exhausted, held>>
  /\ UNCHANGED <<schedVars, mainVars, codecVars>>

\* WebSocketClient::receive_message (connection.rs:85-97), first await:
\* `self.connect().await.ok()?`, a handshake of its own; None if it fails.
ClientReceiveConnect ==
  /\ ioPc = "idle"
  /\ \E r \in Outcomes :
       /\ ioRes' = [IoNone EXCEPT !.op = "Client.receive_message", !.conn = r,
                                  !.res = IF r = "ok" THEN "pending" ELSE "None",
                                  !.nin = Len(inbound)]
       /\ ioPc' = IF r = "ok" THEN "next" ELSE "idle"
       /\ wire' = <<r>>
       /\ lastStream' = IF r = "ok" THEN "local" ELSE lastStream
  /\ UNCHANGED inbound
  /\ UNCHANGED <<retries, base_delay, connector, op, pc, attempt, attempts,
                 retries_left, result, calls, sleeps, pending, exhausted, held>>
  /\ UNCHANGED <<schedVars, mainVars, codecVars>>

\* WebSocketClient::receive_message, second await: one next() on the new
\* stream, which is a local and is dropped when the function returns; the
\* stream the caller holds is not read.
ClientReceiveNext ==
  /\ ioPc = "next"
  /\ \E item \in Items \cup {EndOfStream} :
       ioRes' = [ioRes EXCEPT !.frame = item, !.res = ClientReceive(item).res,
                              !.val = ClientReceive(item).val]
  /\ ioPc' = "idle"
  /\ lastStream' = "dropped"
  /\ UNCHANGED inbound
  /\ UNCHANGED <<retries, base_delay, connector, op, pc, attempt, attempts,
                 retries_left, result, calls, wire, sleeps, pending, exhausted, held>>
  /\ UNCHANGED <<schedVars, mainVars, codecVars>>

IoNext ==
  \/ ControllerReceiveMessage
  \/ ClientReceiveConnect
  \/ ClientReceiveNext
  \/ ControllerSendMessage
  \/ ClientSendMessage
  \/ CasConnect
  \/ CasSend
  \/ LinkDown

SpecIO == IoInit /\ [][IoNext]_vars

\* ================================================================ claims

ReconnectLoops ==
  {"Strategy.reconnect", "Controller.reconnect_if_needed", "Client.reconnect"}

AllErr(s) == \A i \in DOMAIN s : s[i] = "err"

SomeOk(s) == \E i \in DOMAIN s : s[i] = "ok"

\* C1: ReconnectStrategy::reconnect with budget N, driven by a connector whose
\* every connect call fails, never makes more than N connect calls, and when it
\* returns it has made exactly N and returns None.
C1_ExactlyNAttemptsThenNone ==
  (op = "Strategy.reconnect" /\ AllErr(calls)) =>
    /\ Len(calls) <= retries
    /\ (pc = "done") => (Len(calls) = retries /\ result = "None")

C1_Witness ==
  /\ op = "Strategy.reconnect" /\ connector = "Mock" /\ pc = "done"
  /\ retries = 3 /\ Len(calls) = 3 /\ AllErr(calls) /\ result = "None"

\* C2: ReconnectStrategy::reconnect returns Some at the first connect call that
\* succeeds, at whatever position k <= N: a successful call is the last call
\* made, the loop is done with Some as soon as it exists, and only the k-1
\* failures before it were followed by a sleep.
C2_ReturnsAtFirstSuccess ==
  (op = "Strategy.reconnect" /\ SomeOk(calls)) =>
    /\ pc = "done" /\ result = "Some"
    /\ calls[Len(calls)] = "ok"
    /\ AllErr(SubSeq(calls, 1, Len(calls) - 1))
    /\ Len(calls) <= retries
    /\ Len(sleeps) = Len(calls) - 1

C2_Witness ==
  /\ op = "Strategy.reconnect" /\ connector = "Scripted" /\ pc = "done"
  /\ result = "Some" /\ calls = <<"err", "err", "ok">> /\ Len(sleeps) = 2

\* C3: connect() on an unreachable endpoint with max_retries = 3 fails only
\* after 3 attempts (it does not give up after a single failed handshake).
C3_ConnectRetriesBeforeFailing ==
  (op = "Controller.connect" /\ pc = "done" /\ result = "Err" /\ retries = 3) =>
    Len(calls) = 3

\* C4: once reconnect_if_needed has exhausted its retry budget, no later
\* operation on the same controller issues another connection attempt (until
\* the controller is reconstructed).
C4_TerminatedIsAbsorbing ==
  [][(exhausted /\ retries > 0) => ~(Len(calls') > Len(calls))]_vars

\* C5: in each of the three reconnect loops no connect call is issued with a
\* 1-based attempt index greater than the configured maximum.
C5_AttemptIndexWithinBudget ==
  (op \in ReconnectLoops) =>
    /\ (pc = "connect") => (AttemptIndex >= 1 /\ AttemptIndex <= retries)
    /\ Len(calls) <= retries

C5_Witness ==
  /\ op = "Controller.reconnect_if_needed" /\ pc = "connect"
  /\ retries = 3 /\ AttemptIndex = 3 /\ calls = <<"err", "err">>

\* C6: a reconnect loop sleeps a backoff delay only when attempts remain: the
\* k-th failed attempt is followed by a sleep only if k is below the budget, so
\* the final (N-th) failure is not.
C6_NoSleepAfterFinalAttempt ==
  (op \in ReconnectLoops) => (\A k \in DOMAIN sleeps : k < retries)

\* C7: in each reconnect loop the delays slept are non-decreasing in the
\* attempt index: the delay after attempt a is at most the delay after a
\* later attempt b.
C7_DelayNonDecreasing ==
  (op \in ReconnectLoops) =>
    \A a \in DOMAIN sleeps : \A b \in DOMAIN sleeps :
      (a < b) => (sleeps[a] <= sleeps[b])

C7_Witness ==
  /\ op = "Controller.reconnect_if_needed" /\ Len(sleeps) = 3
  /\ sleeps[1] < sleeps[2] /\ sleeps[2] < sleeps[3]

\* C8: all reconnect paths follow one backoff law: with the same base delay
\* (1 second), the delay any loop has slept after its k-th failure is the
\* delay each of the three paths computes for k.
C8_SingleBackoffLaw ==
  (op \in ReconnectLoops /\ base_delay = 1) =>
    \A k \in DOMAIN sleeps :
      /\ sleeps[k] = StrategyDelay(base_delay, k)
      /\ sleeps[k] = ControllerDelay(k - 1)
      /\ sleeps[k] = ClientDelay

\* C9: ReconnectStrategy::reconnect driven by a WebSocketClient reports Some
\* only if a connection attempt really succeeded: once its handshakes have run,
\* one of them was successful.
C9_SomeOnlyIfConnected ==
  (op = "Strategy.reconnect" /\ connector = "WebSocketClient"
     /\ result = "Some" /\ pending = 0) => SomeOk(wire)

\* C10: when a reconnect succeeds, the stream opened by the successful attempt
\* is the one handed to the caller; the reconnect operation does not drop it.
C10_SuccessKeepsTheStream ==
  /\ (op \in {"Controller.reconnect_if_needed", "Client.reconnect"}
        /\ pc = "done" /\ result = "Ok") => lastStream = "returned"
  /\ (op = "Strategy.reconnect" /\ connector = "WebSocketClient" /\ pc = "done"
        /\ result = "Some" /\ pending = 0 /\ SomeOk(wire)) => lastStream = "returned"

\* ------------------------------------------------ the liveness scheduler

AllOk(s) == \A i \in DOMAIN s : s[i] = "ok"

Failed(t) == \E i \in DOMAIN pingLog[t] : pingLog[t][i] = "err"

Looping(t) == tpc[t] \in {"spawned", "tick", "lock", "send"}

AppWriting == apc \in {"reply", "ping"}

Writers == {t \in Tasks : tpc[t] = "send"} \cup (IF AppWriting THEN {App} ELSE {})

\* C11: while a scheduler runs (the task of maintain_connection or
\* KeepAlive::start), each tick is followed by exactly one ping write: the
\* pings written never outnumber the ticks, a scheduler waiting for its next
\* tick has written one ping for every tick so far, and one that is between a
\* tick and its write is exactly one ping behind.
C11_OnePingPerTick ==
  \A t \in Tasks :
    /\ Len(pingLog[t]) <= ticks[t]
    /\ (tpc[t] \in {"tick", "stopped"}) => (Len(pingLog[t]) = ticks[t])
    /\ (tpc[t] \in {"lock", "send"}) => (ticks[t] = Len(pingLog[t]) + 1)

C11_Witness ==
  \E t \in Tasks :
    /\ shared /\ tpc[t] = "tick"
    /\ ticks[t] = 2 /\ pingLog[t] = <<"ok", "ok">>

\* C12: a failed ping write ends the scheduler at once: the failed ping is the
\* last one it writes, no later tick is taken for a retry, the scheduler is
\* stopped, no connection attempt is made, and KeepAlive::start has returned
\* Err (and returns Err only after a failed ping).
C12_StopsAtFirstFailedPing ==
  /\ \A t \in Tasks : \A i \in DOMAIN pingLog[t] :
       (pingLog[t][i] = "err") =>
         /\ i = Len(pingLog[t])
         /\ ticks[t] = Len(pingLog[t])
         /\ tpc[t] = "stopped"
         /\ calls = <<>> /\ op = "idle"
         /\ (~shared) => (kaResult = "Err")
  /\ (kaResult = "Err") => (~shared /\ Failed(1))

C12_Witness ==
  /\ ~shared /\ kaResult = "Err" /\ tpc[1] = "stopped"
  /\ pingLog[1] = <<"ok", "err">> /\ failedAt[1] = 1

\* C13: a scheduler ends only through a failed ping or through cancellation:
\* one that was started, whose ping writes all succeeded and that nobody
\* cancelled is still in its loop, and KeepAlive::start never yields a
\* success result.
C13_EndsOnlyOnFailureOrCancel ==
  /\ \A t \in Tasks :
       (tpc[t] \notin {"none", "cancelled"} /\ AllOk(pingLog[t])) => Looping(t)
  /\ kaResult \in {"pending", "Err"}

\* C14: on a shared handle every write (a ping of a scheduler task, a
\* send_message or send_ping of the application) is made by the holder of the
\* handle's mutex, so at no time are two writes to the handle in progress.
C14_WritesUnderTheMutex ==
  shared =>
    /\ \A p \in Writers : Holds(p)
    /\ Cardinality(Writers) <= 1

C14_Witness ==
  /\ shared /\ apc = "reply" /\ Holds(App)
  /\ \E t \in Tasks : tpc[t] = "lock" /\ mutex = <<App, t>>

\* C15: a scheduler has the handle to itself only while it writes one ping:
\* one that has written a ping and waits for its next tick does not hold
\* exclusive access to the handle.
C15_BorrowsOnlyForTheWrite ==
  \A t \in Tasks : (tpc[t] = "tick" /\ ticks[t] >= 1) => ~Exclusive(t)

\* C16: the application does not keep a scheduler task from the handle while
\* it is suspended in receive_message or asleep between two loop iterations:
\* a task whose tick has come and that waits for the handle's lock is never
\* behind an application that is receiving or sleeping.
C16_ReceiveDoesNotBlockThePing ==
  \A t \in Tasks :
    (shared /\ tpc[t] = "lock") => ~(apc \in {"receive", "sleep"} /\ Holds(App))

\* C17: once the session has ended (disconnect() was called or the controller
\* was dropped) no step writes a further ping on the handle.
C17_NoPingAfterSessionEnd ==
  [][(session # "active") => (pingLog' = pingLog)]_vars

\* C18: after disconnect() the handle is closed: no handle is left live.
C18_DisconnectClosesTheHandle ==
  (session = "disconnected") => (link = "closed")

\* C19: once a ping of a task started by maintain_connection has failed and
\* one tick interval has passed, the stale handle is closed and the
\* controller's reconnect loop is running.
C19_FailedPingStartsReconnect ==
  \A t \in Tasks :
    (shared /\ tpc[t] = "stopped" /\ now >= failedAt[t] + Period) =>
      (link = "closed" /\ op = "Controller.reconnect_if_needed")

\* C20: when a ping of a task started by maintain_connection has failed, the
\* caller of maintain_connection holds a result that says so.
C20_FailedPingIsSurfaced ==
  \A t \in Tasks : (shared /\ tpc[t] = "stopped") => (mres = "Err")

\* C21: a ping write that succeeds, after nothing but successful pings of that
\* scheduler, leaves the connection as it was: the handle is still up and no
\* reconnect operation, connection attempt or exhausted budget comes of it,
\* however many ticks the scheduler has taken.
C21_OkPingsKeepTheSession ==
  [][\A t \in Tasks :
       (pingLog'[t] # pingLog[t] /\ AllOk(pingLog'[t])) =>
         /\ link' = "up"
         /\ op' = "idle" /\ calls' = <<>> /\ sleeps' = <<>>
         /\ exhausted' = FALSE]_vars

C21_Witness ==
  /\ shared /\ link = "up" /\ op = "idle" /\ now = 1
  /\ \A t \in {1, 2} : tpc[t] = "tick" /\ ticks[t] = 2 /\ pingLog[t] = <<"ok", "ok">>

\* C30: with the probe interval absent no liveness ping is sent:
\* maintain_connection starts no scheduler that ticks.
C30_NoIntervalNoPing ==
  (ping_interval = "None") => (\A t \in Tasks : ticks[t] = 0 /\ pingLog[t] = <<>>)

\* C22: at most one handle opened through the controller or client is live
\* at any time: the caller never owns two streams that connect() or
\* reconnect() handed out.
C22_AtMostOneLiveHandle ==
  held <= 1

\* C23: once teardown has been requested (disconnect() was called), a
\* reconnect loop that is between two attempts (in its backoff sleep or at the
\* head of the loop after a failed attempt) neither sleeps the delay out nor
\* goes on to another attempt.
C23_TeardownStopsTheLoop ==
  [][(session # "active" /\ op \in ReconnectLoops /\ pc \in {"sleep", "loop"}
        /\ calls # <<>>) =>
       (sleeps' = sleeps /\ pc' # "connect")]_vars

\* C24: with a retry budget of 0 each of the three reconnect loops makes no
\* connect call, sleeps no delay and goes straight from its loop head to a
\* failure result (None or Err).
C24_ZeroBudgetNeverConnects ==
  (op \in ReconnectLoops /\ retries = 0) =>
    /\ calls = <<>> /\ sleeps = <<>>
    /\ pc \in {"loop", "done"}
    /\ (pc = "done") => (result \in {"None", "Err"})

C24_Witness ==
  /\ op = "Client.reconnect" /\ retries = 0 /\ pc = "done"
  /\ result = "Err" /\ calls = <<>> /\ sleeps = <<>>

\* ------------------------------------------------------- moving frames

\* The text a sequence of bytes is the UTF-8 encoding of; <<-1>> marks bytes
\* that are no UTF-8.
RECURSIVE Utf8Decode(_)
Utf8Decode(b) ==
  IF b = <<>> THEN <<>>
  ELSE IF b[1] < 128
    THEN <<b[1]>> \o Utf8Decode(Tail(b))
  ELSE IF b[1] >= 192 /\ b[1] < 224 /\ Len(b) >= 2
    THEN <<(b[1] - 192) * 64 + (b[2] - 128)>> \o Utf8Decode(SubSeq(b, 3, Len(b)))
  ELSE IF b[1] >= 224 /\ b[1] < 240 /\ Len(b) >= 3
    THEN <<(b[1] - 224) * 4096 + (b[2] - 128) * 64 + (b[3] - 128)>>
           \o Utf8Decode(SubSeq(b, 4, Len(b)))
  ELSE <<-1>>

Received == ioRes.op = "Controller.receive_message"

\* C25: receive_message that finds a Ping or a Pong frame returns Ok(None)
\* with no payload, and has taken exactly that one frame off the stream.
C25_ControlFrameYieldsNone ==
  (Received /\ ioRes.frame.kind \in {"Ping", "Pong"}) =>
    /\ ioRes.res = "OkNone" /\ ioRes.val = <<>>
    /\ Len(inbound) = ioRes.nin - 1

C25_Witness ==
  /\ Received /\ ioRes.frame.kind = "Ping" /\ ioRes.res = "OkNone"
  /\ ioRes.nin = 2 /\ Len(inbound) = 1

\* C26: WebSocketController::receive_message returns Err, never Ok, when it
\* finds a Close frame, the end of the stream or a transport error.
C26_ClosedYieldsErr ==
  (Received /\ ioRes.frame.kind \in {"Close", "End", "Error"}) =>
    /\ ioRes.res = "Err" /\ ioRes.val = <<>>
    /\ (ioRes.frame.kind = "Close") => (ioRes.err = "Connection closed by server")

C26_Witness ==
  /\ Received /\ ioRes.frame.kind = "Close" /\ ioRes.res = "Err"
  /\ ioRes.err = "Connection closed by server"

\* C27: receive_message that finds a data frame returns Ok(Some(bytes)):
\* for a Binary frame the payload itself, for a Text frame bytes (0..255) that
\* are the UTF-8 encoding of the text; nothing is decoded.
C27_DataFrameYieldsItsBytes ==
  /\ (Received /\ ioRes.frame.kind = "Binary") =>
       (ioRes.res = "OkSome" /\ ioRes.val = ioRes.frame.data)
  /\ (Received /\ ioRes.frame.kind = "Text") =>
       /\ ioRes.res = "OkSome"
       /\ \A i \in DOMAIN ioRes.val : ioRes.val[i] \in 0..255
       /\ Utf8Decode(ioRes.val) = ioRes.frame.data

C27_Witness ==
  /\ Received /\ ioRes.frame = [kind |-> "Text", data |-> <<233>>]
  /\ ioRes.res = "OkSome" /\ ioRes.val = <<195, 169>>

\* C28: a send whose write fails returns an error to its caller, in
\* WebSocketController::send_message and in WebSocketClient::send_message
\* alike, and no reconnect has been started by it.
C28_FailedSendReturnsErr ==
  (ioRes.op \in {"Controller.send_message", "Client.send_message"}
     /\ ioRes.wrote = "err") =>
    (ioRes.res = "Err" /\ ioRes.out = <<>> /\ op = "idle" /\ calls = <<>>)

\* C29: connect_and_send_message whose connect fails returns Err and has
\* written no frame; a write is made, and the message is on the wire, only
\* after its connect has succeeded, and what it writes is the message.
C29_SendsOnlyAfterConnect ==
  (ioRes.op = "Controller.connect_and_send_message") =>
    /\ (ioRes.conn = "err") =>
         (ioRes.res = "Err" /\ ioRes.wrote = "none" /\ ioRes.out = <<>> /\ ioPc = "idle")
    /\ (ioRes.wrote # "none" \/ ioRes.out # <<>> \/ ioPc = "send") => (ioRes.conn = "ok")
    /\ (ioRes.out # <<>>) => (ioRes.out = <<[kind |-> "Binary", data |-> ioRes.val]>>)

C29_Witness ==
  /\ ioRes.op = "Controller.connect_and_send_message" /\ ioRes.conn = "err"
  /\ ioRes.res = "Err" /\ ioRes.out = <<>> /\ ioPc = "idle"

\* ---------------------------------------- the liveness scheduler, again

InQueue(p) == \E i \in DOMAIN mutex : mutex[i] = p

\* C31: a probe interval of Some(0) is refused: with it maintain_connection
\* never reports success and no scheduler task is ever started.
C31_ZeroIntervalRejected ==
  (shared /\ ping_interval = "Zero") =>
    (mres # "Ok" /\ \A t \in Tasks : tpc[t] = "none")

\* C38: a task spawned by maintain_connection that is over (stopped on a
\* failed ping, panicked or cancelled) neither holds the handle's lock nor
\* stands in its queue, so the lock stays available to the application.
C38_TaskEndsWithoutTheLock ==
  shared => \A t \in Tasks : Over(t) => ~InQueue(t)

C38_Witness ==
  /\ shared /\ Holds(App) /\ apc = "receive"
  /\ \E t \in Tasks : tpc[t] = "stopped" /\ Failed(t)

\* C39: at most one scheduler task is in its ping loop on a handle, however
\* often maintain_connection was called on it.
C39_OneSchedulerPerHandle ==
  shared => Cardinality({t \in Tasks : Looping(t)}) <= 1

\* C40: a scheduler writes its first ping before a tick interval has gone by
\* since it started, and every later ping exactly one interval after the ping
\* before it.
C40_PingsOneIntervalApart ==
  [][\A t \in Tasks :
       (pingLog'[t] # pingLog[t]) =>
         IF pingLog[t] = <<>>
           THEN now' < tstart[t] + Period
           ELSE now' = pingAt[t] + Period]_vars

\* ------------------------------------------- the retry loops, once more

\* The two loops that return a Result.
ResultLoops == {"Controller.reconnect_if_needed", "Client.reconnect"}

\* C34: WebSocketController::reconnect_if_needed and WebSocketClient::reconnect
\* return Ok at the first connect attempt that succeeds, return an error
\* exactly when all `retries` attempts have failed, and make at most `retries`
\* attempts.
C34_OkAtFirstSuccessErrWhenAllFailed ==
  (op \in ResultLoops) =>
    /\ Len(calls) <= retries
    /\ SomeOk(calls) =>
         /\ pc = "done" /\ result = "Ok"
         /\ calls[Len(calls)] = "ok"
         /\ AllErr(SubSeq(calls, 1, Len(calls) - 1))
    /\ (pc = "done" /\ result = "Ok") => SomeOk(calls)
    /\ (pc = "done" /\ result = "Err") <=> (pc = "done" /\ Len(calls) = retries /\ AllErr(calls))

C34_Witness ==
  /\ op = "Client.reconnect" /\ pc = "done" /\ result = "Err"
  /\ retries = 2 /\ calls = <<"err", "err">>

\* C35: ReconnectStrategy::reconnect waits with exponential backoff: the delay
\* slept after the k-th failed attempt is base_delay * 2^(k-1).
C35_StrategyBackoffIsExponential ==
  (op = "Strategy.reconnect") =>
    \A k \in DOMAIN sleeps : sleeps[k] = base_delay * 2 ^ (k - 1)

\* C36: WebSocketController::reconnect_if_needed waits with exponential
\* backoff: the delay slept after the k-th failed attempt (k = 1..retries) is
\* 2^(k-1) seconds.
C36_ControllerBackoffIsExponential ==
  (op = "Controller.reconnect_if_needed") =>
    /\ \A k \in DOMAIN sleeps : sleeps[k] = 2 ^ (k - 1)
    /\ Len(sleeps) <= retries
    /\ (pc \in {"loop", "done"}) =>
         Len(sleeps) = Cardinality({i \in DOMAIN calls : calls[i] = "err"})

C36_Witness ==
  /\ op = "Controller.reconnect_if_needed" /\ pc = "done" /\ result = "Err"
  /\ retries = 3 /\ sleeps = <<1, 2, 4>>

\* =================================================== main (main.rs:34-73)

\* main.rs:47  let mut backoff = 1;
BackoffStart == 1

\* main.rs:71  .min(30)
BackoffCap == 30

\* main.rs:64  if backoff > 30
ExitThreshold == 30

\* main.rs:71  backoff = (backoff * 2).min(30);
NextBackoff(b) == IF b * 2 < BackoffCap THEN b * 2 ELSE BackoffCap

\* main.rs:64  if backoff > 30 { ...; break; }
ExitsNow(b) == b > ExitThreshold

\* No reconnect operation in flight; main owns the only controller.
ConnQuiet ==
  /\ base_delay = 0 /\ connector = "Mock"
  /\ op = "idle" /\ pc = "idle"
  /\ attempt = 0 /\ attempts = 0 /\ retries_left = 0
  /\ result = "pending"
  /\ calls = <<>> /\ wire = <<>> /\ sleeps = <<>>
  /\ pending = 0 /\ exhausted = FALSE /\ held = 0 /\ lastStream = "none"

\* main.rs:39-47: retries = 5 is handed to the controller (the loop of main
\* never reads it), the interval is Some(5), backoff starts at 1; a stream,
\* once there is one, is shared with its ping task (main.rs:53).
MainInit ==
  /\ shared = TRUE
  /\ ping_interval = "Pos"
  /\ SchedQuiet
  /\ IoQuiet
  /\ CodecQuiet
  /\ ConnQuiet
  /\ retries = 5
  /\ mpc = "connect"
  /\ backoff = BackoffStart
  /\ mlast = "none"
  /\ mses = "none"
  /\ msess = 0
  /\ olink = [t \in Tasks |-> "none"]

\* main.rs:50-62  match timeout(Duration::from_secs(5), controller.connect()).await:
\* Ok(Ok(ws_stream)) wraps the new stream in a new Arc<Mutex<_>> and enters
\* run_connection_loop; the stream of the session before stays with its ping
\* task.  Ok(Err(e)) and Err(_), the timeout, are logged and fall through to
\* the check of `backoff`.
MainConnect ==
  /\ mpc = "connect"
  /\ \E r \in {"ok", "err", "timeout"} :
       /\ (r = "ok") => msess < MaxSched
       /\ mlast' = r
       /\ IF r = "ok"
            THEN /\ mpc' = "maintain"
                 /\ msess' = msess + 1
                 /\ olink' = IF msess >= 1 THEN [olink EXCEPT ![msess] = link] ELSE olink
                 /\ link' = "up"
                 /\ mutex' = <<>>
            ELSE /\ mpc' = "check"
                 /\ UNCHANGED <<msess, olink, link, mutex>>
  /\ UNCHANGED <<backoff, mses>>
  /\ UNCHANGED <<shared, ping_interval, now, tpc, tstart, ticks, pingLog, pingAt, failedAt,
                 kaResult, mres, apc, wake, session>>
  /\ UNCHANGED <<connVars, ioVars, codecVars>>

\* main.rs:102  controller.maintain_connection(ws_stream.clone()).await?;
\* it spawns the ping task of this stream and answers Ok(()), so `?` never
\* returns here.
MainMaintain ==
  /\ mpc = "maintain"
  /\ tpc' = [tpc EXCEPT ![msess] = "spawned"]
  /\ mres' = "Ok"
  /\ mpc' = "loop"
  /\ UNCHANGED <<backoff, mlast, mses, msess, olink>>
  /\ UNCHANGED <<shared, ping_interval, link, now, mutex, tstart, ticks, pingLog, pingAt,
                 failedAt, kaResult, apc, wake, session>>
  /\ UNCHANGED <<connVars, ioVars, codecVars>>

\* main.rs:105  let mut stream = ws_stream.lock().await; main joins the queue
\* of the mutex.
MainLock ==
  /\ mpc = "loop"
  /\ mutex' = Append(mutex, App)
  /\ mpc' = "lock"
  /\ UNCHANGED <<backoff, mlast, mses, msess, olink>>
  /\ UNCHANGED <<shared, ping_interval, link, now, tpc, tstart, ticks, pingLog, pingAt,
                 failedAt, kaResult, mres, apc, wake, session>>
  /\ UNCHANGED <<connVars, ioVars, codecVars>>

\* lock().await completes: main is at the head of the queue.
MainAcquire ==
  /\ mpc = "lock" /\ Holds(App)
  /\ mpc' = "receive"
  /\ UNCHANGED <<backoff, mlast, mses, msess, olink>>
  /\ UNCHANGED <<connVars, schedVars, ioVars, codecVars>>

\* main.rs:108-135  match controller.receive_message(&mut *stream).await,
\* guard in hand: Ok(Some(msg)) goes on to the reply, Ok(None) to the ping,
\* Err(e) breaks out of the loop, after which run_connection_loop returns
\* Ok(()) (main.rs:146) and its guard is dropped.
MainReceive ==
  /\ mpc = "receive"
  /\ \E r \in (IF link = "up" THEN {"some", "none", "err"} ELSE {"err"}) :
       /\ mpc' = CASE r = "some" -> "reply" [] r = "none" -> "ping" [] OTHER -> "check"
       /\ mses' = IF r = "err" THEN "Ok" ELSE mses
       /\ mutex' = IF r = "err" THEN Release(App) ELSE mutex
  /\ UNCHANGED <<backoff, mlast, msess, olink>>
  /\ UNCHANGED <<shared, ping_interval, link, now, tpc, tstart, ticks, pingLog, pingAt,
                 failedAt, kaResult, mres, apc, wake, session>>
  /\ UNCHANGED <<connVars, ioVars, codecVars>>

\* main.rs:124-128  serde_cbor::to_vec(..)?; controller.send_message(..).await?;
\* a failed send leaves run_connection_loop with Err, logged at main.rs:57.
MainReply ==
  /\ mpc = "reply"
  /\ LET r == WriteOutcome IN
       /\ mpc' = IF r = "ok" THEN "ping" ELSE "check"
       /\ mses' = IF r = "ok" THEN mses ELSE "Err"
       /\ mutex' = IF r = "ok" THEN mutex ELSE Release(App)
  /\ UNCHANGED <<backoff, mlast, msess, olink>>
  /\ UNCHANGED <<shared, ping_interval, link, now, tpc, tstart, ticks, pingLog, pingAt,
                 failedAt, kaResult, mres, apc, wake, session>>
  /\ UNCHANGED <<connVars, ioVars, codecVars>>

\* main.rs:138-143  if let Err(e) = controller.send_ping(..).await { ..; break; }
\* and, after a ping that went out, sleep(Duration::from_secs(interval)) begins.
MainPing ==
  /\ mpc = "ping"
  /\ LET r == WriteOutcome IN
       /\ mpc' = IF r = "ok" THEN "nap" ELSE "check"
       /\ mses' = IF r = "ok" THEN mses ELSE "Ok"
       /\ mutex' = IF r = "ok" THEN mutex ELSE Release(App)
       /\ wake' = IF r = "ok" THEN now + Period ELSE wake
  /\ UNCHANGED <<backoff, mlast, msess, olink>>
  /\ UNCHANGED <<shared, ping_interval, link, now, tpc, tstart, ticks, pingLog, pingAt,
                 failedAt, kaResult, mres, apc, session>>
  /\ UNCHANGED <<connVars, ioVars, codecVars>>

\* main.rs:143-145  the sleep ends and so does the iteration: the guard,
\* held all through the sleep, is dropped; main is at the top of the loop.
MainNap ==
  /\ mpc = "nap" /\ wake <= now
  /\ mpc' = "loop"
  /\ wake' = 0
  /\ mutex' = Release(App)
  /\ UNCHANGED <<backoff, mlast, mses, msess, olink>>
  /\ UNCHANGED <<shared, ping_interval, link, now, tpc, tstart, ticks, pingLog, pingAt,
                 failedAt, kaResult, mres, apc, session>>
  /\ UNCHANGED <<connVars, ioVars, codecVars>>

\* main.rs:64-67  if backoff > 30 { error!("Maximum retries reached. Exiting..."); break; }
\* The results matched at main.rs:50-62 were logged and are gone.
MainCheck ==
  /\ mpc = "check"
  /\ mpc' = IF ExitsNow(backoff) THEN "exited" ELSE "sleep"
  /\ mlast' = "none"
  /\ mses' = "none"
  /\ UNCHANGED <<backoff, msess, olink>>
  /\ UNCHANGED <<connVars, schedVars, ioVars, codecVars>>

\* main.rs:69-71  sleep(Duration::from_secs(backoff)).await; backoff = (backoff * 2).min(30);
\* The sleep is counted in seconds, not in ping intervals: the clock of the
\* ping tasks is not bound to it.
MainSleep ==
  /\ mpc = "sleep"
  /\ backoff' = NextBackoff(backoff)
  /\ mpc' = "connect"
  /\ UNCHANGED <<mlast, mses, msess, olink>>
  /\ UNCHANGED <<connVars, schedVars, ioVars, codecVars>>

\* The ping task of the stream main holds now, or held last: the task of
\* maintain_connection (controller.rs:171-181), sharing the mutex with main.
MainTask ==
  /\ msess >= 1
  /\ \/ TaskBegin(msess)
     \/ TaskTick(msess)
     \/ TaskAcquire(msess)
     \/ TaskPing(msess)

\* The ping task of a stream main has let go of: it has the only Arc and
\* goes on ticking (controller.rs:171-174).
OrphanBegin == \E t \in Tasks : t < msess /\ TaskBegin(t)

OrphanTick ==
  \E t \in Tasks :
    /\ t < msess
    /\ tpc[t] = "tick"
    /\ TickDue(t)
    /\ ticks' = [ticks EXCEPT ![t] = @ + 1]
    /\ tpc' = [tpc EXCEPT ![t] = AfterTick]
    /\ UNCHANGED <<shared, ping_interval, link, now, mutex, tstart, pingLog, pingAt, failedAt,
                   kaResult, mres, apc, wake, session>>
    /\ UNCHANGED <<connVars, ioVars, mainVars, codecVars>>

\* ws_stream.lock().await (controller.rs:175) on a mutex nobody else asks for.
OrphanAcquire ==
  \E t \in Tasks :
    /\ t < msess
    /\ tpc[t] = "lock"
    /\ tpc' = [tpc EXCEPT ![t] = "send"]
    /\ UNCHANGED <<shared, ping_interval, link, now, mutex, tstart, ticks, pingLog, pingAt,
                   failedAt, kaResult, mres, apc, wake, session>>
    /\ UNCHANGED <<connVars, ioVars, mainVars, codecVars>>

\* stream.send(Message::Ping(vec![])).await on its own stream (controller.rs:176-179).
OrphanPing ==
  \E t \in Tasks :
    /\ t < msess
    /\ tpc[t] = "send"
    /\ LET r == IF olink[t] = "up" THEN "ok" ELSE "err" IN
         /\ pingLog' = [pingLog EXCEPT ![t] = @ \o PingFrames(r)]
         /\ pingAt' = [pingAt EXCEPT ![t] = now]
         /\ tpc' = [tpc EXCEPT ![t] = AfterPing(r)]
         /\ failedAt' = IF r = "err" THEN [failedAt EXCEPT ![t] = now] ELSE failedAt
    /\ UNCHANGED <<shared, ping_interval, link, now, mutex, tstart, ticks, kaResult,
                   mres, apc, wake, session>>
    /\ UNCHANGED <<connVars, ioVars, mainVars, codecVars>>

\* The peer or the network of the stream in use goes away.
MainLinkDown == msess >= 1 /\ LinkDown

\* The same for a stream main has let go of.
OrphanLinkDown ==
  /\ \E t \in Tasks :
       /\ t < msess
       /\ olink[t] = "up"
       /\ olink' = [olink EXCEPT ![t] = "down"]
  /\ UNCHANGED <<mpc, backoff, mlast, mses, msess>>
  /\ UNCHANGED <<connVars, schedVars, ioVars, codecVars>>

MainNext ==
  \/ MainConnect
  \/ MainMaintain
  \/ MainLock
  \/ MainAcquire
  \/ MainReceive
  \/ MainReply
  \/ MainPing
  \/ MainNap
  \/ MainCheck
  \/ MainSleep
  \/ MainTask
  \/ OrphanBegin
  \/ OrphanTick
  \/ OrphanAcquire
  \/ OrphanPing
  \/ MainLinkDown
  \/ OrphanLinkDown
  \/ Advance

\* The connect attempt is bounded by its 5 s timeout and the two sleeps end,
\* so the steps of the retry path are taken once they are due; a session may
\* block in receive for as long as the peer is silent.
SpecMain ==
  /\ MainInit /\ [][MainNext]_vars
  /\ WF_vars(MainConnect) /\ WF_vars(MainCheck) /\ WF_vars(MainSleep)

\* C37: when connection attempts keep failing, the retry loop of main
\* eventually reaches its "Maximum retries reached" branch and exits: the loop
\* does not retry forever.
C37_MainLoopExits == ([](msess = 0)) => <>(mpc = "exited")

\* ================================= MessageHandler (messages.rs:50-168)

\* MessageFormat (messages.rs:36-43)
Formats == {"Json", "Cbor"}

\* The types T the handler is called with here: the String of its tests
\* (messages.rs:175-200, tests/fuzz_test.rs:62) and Options around it;
\* serialize and deserialize take any T: Serialize / Deserialize
\* (messages.rs:71, 98).
CodecTypes ==
  {"String", "Option<String>", "Option<Option<String>>",
   "Option<Option<Option<String>>>"}

\* How many Options are wrapped around the String of a type.
Depth(ty) ==
  CASE ty = "String" -> 0
    [] ty = "Option<String>" -> 1
    [] ty = "Option<Option<String>>" -> 2
    [] ty = "Option<Option<Option<String>>>" -> 3

\* The scalar values of the texts: '"', '\', 'a' and U+00E9.
TextChars == {34, 92, 97, 233}

Texts == SeqsUpTo(TextChars, MaxText)

\* A value is the constructors around it, outermost first, and its text.
Str(t) == [wrap |-> <<>>, str |-> t]

ValNone == [wrap |-> <<"None">>, str |-> <<>>]

ValSome(v) == [wrap |-> <<"Some">> \o v.wrap, str |-> v.str]

RECURSIVE Values(_)
Values(d) ==
  IF d = 0 THEN {Str(t) : t \in Texts}
  ELSE {ValNone} \cup {ValSome(v) : v \in Values(d - 1)}

IsNone(v) == v.wrap # <<>> /\ v.wrap[Len(v.wrap)] = "None"

\* "null"
JsonNull == <<110, 117, 108, 108>>

\* serde_json::to_vec (messages.rs:115): None is written as null, Some(x) as
\* x itself, a string between double quotes with '"' and '\' escaped.
ToVecJson(v) == IF IsNone(v) THEN JsonNull ELSE SerializeJson(v.str)

\* serde_cbor::to_vec (messages.rs:131): None is the simple value null (0xf6),
\* Some(x) is x itself, a string is a text head (0x60 + length, for lengths
\* below 24) followed by its UTF-8 bytes.
ToVecCbor(v) == IF IsNone(v) THEN <<246>> ELSE <<96 + Len(Utf8(v.str))>> \o Utf8(v.str)

\* MessageHandler::serialize (messages.rs:71-76): the match on the format.
Serialize(v, fmt) == IF fmt = "Json" THEN ToVecJson(v) ELSE ToVecCbor(v)

\* str::from_utf8: the scalar values of a byte string, <<-1>> from the first
\* byte on that is no UTF-8.
IsCont(x) == x >= 128 /\ x < 192

RECURSIVE StrictUtf8(_)
StrictUtf8(b) ==
  IF b = <<>> THEN <<>>
  ELSE IF b[1] < 128
    THEN <<b[1]>> \o StrictUtf8(Tail(b))
  ELSE IF b[1] >= 194 /\ b[1] < 224 /\ Len(b) >= 2 /\ IsCont(b[2])
    THEN <<(b[1] - 192) * 64 + (b[2] - 128)>> \o StrictUtf8(SubSeq(b, 3, Len(b)))
  ELSE IF /\ b[1] >= 224 /\ b[1] < 240 /\ Len(b) >= 3 /\ IsCont(b[2]) /\ IsCont(b[3])
          /\ (b[1] = 224 => b[2] >= 160) /\ (b[1] = 237 => b[2] < 160)
    THEN <<(b[1] - 224) * 4096 + (b[2] - 128) * 64 + (b[3] - 128)>>
           \o StrictUtf8(SubSeq(b, 4, Len(b)))
  ELSE IF /\ b[1] >= 240 /\ b[1] < 245 /\ Len(b) >= 4
          /\ IsCont(b[2]) /\ IsCont(b[3]) /\ IsCont(b[4])
          /\ (b[1] = 240 => b[2] >= 144) /\ (b[1] = 244 => b[2] < 144)
    THEN <<(b[1] - 240) * 262144 + (b[2] - 128) * 4096 + (b[3] - 128) * 64 + (b[4] - 128)>>
           \o StrictUtf8(SubSeq(b, 5, Len(b)))
  ELSE <<-1>>

IsUtf8(b) == \A i \in DOMAIN StrictUtf8(b) : StrictUtf8(b)[i] # -1

\* What a decoder hands back: a value and the bytes after it, or an error.
Decoded(v, r) == [ok |-> TRUE, val |-> v, rest |-> r]

DecodeErr == [ok |-> FALSE, val |-> NoValue, rest |-> <<>>]

\* JSON whitespace: space, tab, line feed, carriage return.
JsonWs == {32, 9, 10, 13}

RECURSIVE SkipWs(_)
SkipWs(b) == IF b # <<>> /\ b[1] \in JsonWs THEN SkipWs(Tail(b)) ELSE b

\* The character a JSON escape stands for, -1 for none.  (\uXXXX is not
\* modelled: no byte string of the model holds a 'u'.)
JsonUnescape(e) ==
  CASE e = 34 -> 34 [] e = 92 -> 92 [] e = 47 -> 47
    [] e = 98 -> 8 [] e = 102 -> 12 [] e = 110 -> 10 [] e = 114 -> 13 [] e = 116 -> 9
    [] e \notin {34, 92, 47, 98, 102, 110, 114, 116, 117} -> -1

\* serde_json reading a string after its opening quote: bytes are taken up to
\* the closing quote, an escape is replaced by its character, a raw control
\* character or the end of the input is an error; what was collected must be
\* UTF-8.
RECURSIVE JsonString(_, _)
JsonString(b, acc) ==
  IF b = <<>> THEN DecodeErr
  ELSE IF b[1] = 34
    THEN (IF IsUtf8(acc) THEN Decoded(Str(StrictUtf8(acc)), Tail(b)) ELSE DecodeErr)
  ELSE IF b[1] = 92
    THEN (IF Len(b) < 2 \/ JsonUnescape(b[2]) = -1
            THEN DecodeErr
            ELSE JsonString(SubSeq(b, 3, Len(b)), Append(acc, JsonUnescape(b[2]))))
  ELSE IF b[1] < 32 THEN DecodeErr
  ELSE JsonString(Tail(b), Append(acc, b[1]))

\* serde_json deserializing an Option<..<String>> of depth d: whitespace is
\* skipped; for an Option an 'n' must begin null and gives None, anything
\* else is Some of what the inner type reads; a String must begin with '"'.
RECURSIVE JsonValue(_, _)
JsonValue(b, d) ==
  LET r == SkipWs(b) IN
  IF r = <<>> THEN DecodeErr
  ELSE IF d > 0 /\ r[1] = 110
    THEN (IF Len(r) >= 4 /\ SubSeq(r, 1, 4) = JsonNull
            THEN Decoded(ValNone, SubSeq(r, 5, Len(r)))
            ELSE DecodeErr)
  ELSE IF d > 0
    THEN (LET in == JsonValue(r, d - 1) IN
          IF in.ok THEN Decoded(ValSome(in.val), in.rest) ELSE DecodeErr)
  ELSE IF r[1] = 34 THEN JsonString(Tail(r), <<>>)
  ELSE DecodeErr

\* serde_json::from_slice (messages.rs:147): the value, then only whitespace.
FromSliceJson(b, d) ==
  LET v == JsonValue(b, d) IN
  IF v.ok /\ SkipWs(v.rest) = <<>> THEN Decoded(v.val, <<>>) ELSE DecodeErr

\* The big-endian number in a byte string.
RECURSIVE BigEndian(_)
BigEndian(b) == IF b = <<>> THEN 0 ELSE BigEndian(SubSeq(b, 1, Len(b) - 1)) * 256 + b[Len(b)]

\* How many bytes after the head hold the length, for additional information ai.
CborLenBytes(ai) == CASE ai < 24 -> 0 [] ai = 24 -> 1 [] ai = 25 -> 2 [] ai = 26 -> 4 [] ai = 27 -> 8

\* serde_cbor reading a String: the head must be a text string (major type 3)
\* or a byte string (major type 2, String's visitor takes bytes that are
\* UTF-8) of definite length, with all of its bytes present and UTF-8.  Any
\* other major type is an error.  (Tags, major type 6, and indefinite
\* lengths, heads 0x5f and 0x7f, are not modelled: no byte string of the
\* model begins with them.)
CborString(b) ==
  IF b = <<>> THEN DecodeErr
  ELSE LET major == b[1] \div 32
           ai == b[1] % 32
       IN CASE major \in {0, 1, 4, 5, 7} -> DecodeErr
            [] major \in {2, 3} /\ ai \in 28..30 -> DecodeErr
            [] major \in {2, 3} /\ ai < 28 ->
                 LET k == CborLenBytes(ai) IN
                 IF Len(b) < 1 + k THEN DecodeErr
                 ELSE LET n == IF ai < 24 THEN ai ELSE BigEndian(SubSeq(b, 2, 1 + k))
                          body == SubSeq(b, 2 + k, 1 + k + n)
                      IN IF Len(b) < 1 + k + n \/ ~IsUtf8(body)
                           THEN DecodeErr
                           ELSE Decoded(Str(StrictUtf8(body)), SubSeq(b, 2 + k + n, Len(b)))

\* serde_cbor deserializing an Option<..<String>> of depth d: for an Option
\* the byte 0xf6 (null) gives None, anything else is Some of what the inner
\* type reads.
RECURSIVE CborValue(_, _)
CborValue(b, d) ==
  IF d = 0 THEN CborString(b)
  ELSE IF b = <<>> THEN DecodeErr
  ELSE IF b[1] = 246 THEN Decoded(ValNone, Tail(b))
  ELSE LET in == CborValue(b, d - 1) IN
       IF in.ok THEN Decoded(ValSome(in.val), in.rest) ELSE DecodeErr

\* serde_cbor::from_slice (messages.rs:163): the value, then the end of the input.
FromSliceCbor(b, d) ==
  LET v == CborValue(b, d) IN
  IF v.ok /\ v.rest = <<>> THEN Decoded(v.val, <<>>) ELSE DecodeErr

\* A faulty variant of WrapDecoded: a failure of the decoder is turned into
\* Ok(None), as `.ok()` would do.
WrapDecoded_swallow(r) ==
  IF r.ok THEN [res |-> "Ok", opt |-> "Some", val |-> r.val]
  ELSE [res |-> "Ok", opt |-> "None", val |-> NoValue]

\* messages.rs:147-150, 163-166  .map(|v| Some(v)).map_err(|e| { ..; format!(..) })
WrapDecoded(r) ==
  IF r.ok THEN [res |-> "Ok", opt |-> "Some", val |-> r.val]
  ELSE [res |-> "Err", opt |-> "none", val |-> NoValue]

\* MessageHandler::deserialize (messages.rs:98-103): the match on the format.
Deserialize(b, ty, fmt) ==
  WrapDecoded(IF fmt = "Json" THEN FromSliceJson(b, Depth(ty)) ELSE FromSliceCbor(b, Depth(ty)))

\* The bytes of the inputs handed to deserialize directly: ' ', '"', '\',
\* '`' (the CBOR head of the empty text), 'a' and 'b' (the CBOR heads of texts
\* of 1 and 2 bytes), 0xe9 (no UTF-8 on its own) and 0xf6 (CBOR null).
CodecBytes == {32, 34, 92, 96, 97, 98, 233, 246}

ByteStrings == SeqsUpTo(CodecBytes, MaxBytes)

\* The caller has a value to serialize, or bytes to deserialize.
CodecInit ==
  /\ shared = FALSE
  /\ ping_interval = "Pos"
  /\ SchedQuiet
  /\ IoQuiet
  /\ MainQuiet
  /\ ConnQuiet
  /\ retries = 0
  /\ cfmt \in Formats
  /\ cres = NoResult
  /\ \/ /\ cpc = "value"
        /\ cty \in CodecTypes
        /\ cval \in Values(Depth(cty))
        /\ cbytes = <<>>
     \/ /\ cpc = "bytes"
        /\ cty \in {"String", "Option<String>"}
        /\ cval = NoValue
        /\ cbytes \in ByteStrings

\* MessageHandler::serialize(&v, format); neither encoder fails on these types.
CodecSerialize ==
  /\ cpc = "value"
  /\ cbytes' = Serialize(cval, cfmt)
  /\ cpc' = "encoded"
  /\ UNCHANGED <<cfmt, cty, cval, cres>>
  /\ UNCHANGED <<connVars, schedVars, ioVars, mainVars>>

\* MessageHandler::deserialize::<T>(&bytes, format), on what serialize
\* returned or on bytes from elsewhere.
CodecDeserialize ==
  /\ cpc \in {"encoded", "bytes"}
  /\ cres' = Deserialize(cbytes, cty, cfmt)
  /\ cpc' = IF cpc = "encoded" THEN "roundtrip" ELSE "decoded"
  /\ UNCHANGED <<cfmt, cty, cval, cbytes>>
  /\ UNCHANGED <<connVars, schedVars, ioVars, mainVars>>

CodecNext ==
  \/ CodecSerialize
  \/ CodecDeserialize

SpecCodec == CodecInit /\ [][CodecNext]_vars

\* ------------------------------------------------- the codec's contract

OkSome(v) == [res |-> "Ok", opt |-> "Some", val |-> v]

\* C32: for both formats and every serializable value v,
\* deserialize(serialize(v, format), format) succeeds and yields v.
C32_RoundTripIdentity == (cpc = "roundtrip") => cres = OkSome(cval)

\* The bytes of a sequence of tokens, one after the other.
RECURSIVE Flatten(_)
Flatten(s) == IF s = <<>> THEN <<>> ELSE Head(s) \o Flatten(Tail(s))

Over8(t, S) == \A i \in DOMAIN t : t[i] \in S

\* JSON's grammar of a string body, as what can be written: a character from
\* U+0020 on other than '"' and '\', in UTF-8, or a backslash and one of
\* " \ / b f n r t; here the tokens that can be spelled with CodecBytes.
JsonTokens ==
  {t \in {Utf8Char(c) : c \in (32..127) \ {34, 92}}
         \cup {<<92, e>> : e \in {34, 92, 47, 98, 102, 110, 114, 116}} :
     Over8(t, CodecBytes)}

JsonStrings == {<<34>> \o Flatten(s) \o <<34>> : s \in SeqsUpTo(JsonTokens, MaxBytes - 2)}

WsRuns == SeqsUpTo(JsonWs \cap CodecBytes, MaxBytes)

\* The encodings of a String, written out from the grammar.  JSON: a string
\* between optional whitespace.
ValidJsonStrings == {l \o c \o r : l \in WsRuns, c \in JsonStrings, r \in WsRuns}

\* CBOR: a definite-length text (or byte) string of UTF-8, nothing after it.
ValidCborStrings ==
  UNION {{<<96 + Len(t)>> \o t, <<64 + Len(t)>> \o t} :
           t \in {u \in SeqsUpTo(CodecBytes, MaxBytes - 1) : IsUtf8(u)}}

\* b is an encoding of a value of type ty: of a String or, for an Option,
\* null (which no JSON input of CodecBytes spells).
IsValidEncoding(b, ty, fmt) ==
  IF fmt = "Json" THEN b \in ValidJsonStrings
  ELSE b \in ValidCborStrings \/ (ty # "String" /\ b = <<246>>)

\* C33: for every byte string that is not a valid encoding under the given
\* format, deserialize returns an error value and never returns a value.
C33_MalformedInputIsAnError ==
  (cpc = "decoded" /\ ~IsValidEncoding(cbytes, cty, cfmt)) => cres.res = "Err"

C33_Witness ==
  /\ cpc = "decoded" /\ cfmt = "Json" /\ cty = "String"
  /\ cbytes = <<34, 97, 34, 97>>
  /\ cres.res = "Err"

====
